---- MODULE Spec2Model ----
(***************************************************************************)
(* Deployment-validation scripts of CanChat.                               *)
(*                                                                         *)
(*   SpecReport       generate_test_report (deploy_and_test.py)            *)
(*   SpecStatic       test_deployment_simple (test_deployment_simple.py)   *)
(*   SpecInteractive  test_deployment (browser_automation.py and           *)
(*                    test_deployment.py)                                  *)
(*   SpecWorkflow     main, wait_for_deployment, test_deployment,          *)
(*                    run_command (deploy_and_test.py)                     *)
(*   SpecCli          __main__ of browser_automation.py,                   *)
(*                    test_https_server.py and deploy_and_test.py          *)
(*   SpecUvx          test_deployment_uvx.py                               *)
(*   SpecAutomation   the methods of BrowserAutomation in any order        *)
(*                                                                         *)
(* A fetched body is a sequence of tokens: each token is one of the        *)
(* literals the checker looks for, the literal http://, a double quote, a  *)
(* whitespace character or a run of other text.  `in` and re.findall are   *)
(* computed over that sequence.                                            *)
(***************************************************************************)
EXTENDS Integers, Sequences, FiniteSets, TLC

VARIABLES
    \* deploy_and_test.py
    results, report, rpc,
    \* test_deployment_simple.py
    spc, status, content, idx, found, missing, evaluated, http_resources,
    sresult, loaded, base, inserted,
    \* browser_automation.py, test_deployment.py
    variant, ipc, step, browser, context, page, title, close_calls, events,
    raised, original, failed, reported_success, exit_code,
    \* deploy_and_test.py : main, wait_for_deployment, test_deployment
    wpc, seconds, remaining, notifications, sleeps, completed_at, tindex,
    executed, outcomes, aborted, wexit,
    \* __main__ of browser_automation.py, test_https_server.py,
    \* deploy_and_test.py
    script, argv, action, port,
    \* test_deployment_uvx.py
    upc, shot, pdf, interactivity, png_exists, pdf_exists, ureturn,
    files_valid, answer, quick_test, uexit,
    \* BrowserAutomation, called in any order
    ncalls, launches, browser_id, closed, last_op, last_result,
    last_had_page, last_touched, escaped

rvars == <<results, report, rpc>>
svars == <<spc, status, content, idx, found, missing, evaluated,
           http_resources, sresult, loaded, base, inserted>>
ivars == <<variant, ipc, step, browser, context, page, title, close_calls,
           events, raised, original, failed, reported_success, exit_code>>
wvars == <<wpc, seconds, remaining, notifications, sleeps, completed_at,
           tindex, executed, outcomes, aborted, wexit>>
cvars == <<script, argv, action, port>>
uvars == <<upc, shot, pdf, interactivity, png_exists, pdf_exists, ureturn,
           files_valid, answer, quick_test, uexit>>
avars == <<ncalls, launches, browser_id, closed, last_op, last_result,
           last_had_page, last_touched, escaped>>
xvars == <<wvars, cvars, uvars, avars>>
vars == <<rvars, svars, ivars, xvars>>

----------------------------------------------------------------------------
(* Bounds *)

MaxResults == 3
MaxMissing == 2
MaxInsertDist == 2

----------------------------------------------------------------------------
(* deploy_and_test.py : generate_test_report *)

CheckResult == [success : BOOLEAN, critical : BOOLEAN]

RECURSIVE SeqsUpTo(_, _)
SeqsUpTo(S, n) ==
    IF n = 0 THEN {<<>>}
    ELSE LET shorter == SeqsUpTo(S, n - 1)
         IN  shorter \cup {Append(s, x) : s \in {t \in shorter : Len(t) = n - 1}, x \in S}

\* sum(1 for r in results if r["success"])
passed_tests(rs) == Cardinality({i \in DOMAIN rs : rs[i].success})

\* sum(1 for r in results if not r["success"] and r["critical"])
critical_failures_all(rs) == Cardinality({i \in DOMAIN rs : ~rs[i].success})
critical_failures(rs) ==
    Cardinality({i \in DOMAIN rs : ~rs[i].success /\ rs[i].critical})

generate_test_report(rs) ==
    [total_tests       |-> Len(rs),
     passed_tests      |-> passed_tests(rs),
     failed_tests      |-> Len(rs) - passed_tests(rs),
     critical_failures |-> critical_failures(rs),
     verdict           |-> (critical_failures(rs) = 0)]

NoReport == [total_tests |-> 0, passed_tests |-> 0, failed_tests |-> 0,
             critical_failures |-> 0, verdict |-> FALSE]

RInit ==
    /\ results \in SeqsUpTo(CheckResult, MaxResults)
    /\ report = NoReport
    /\ rpc = "report"

RIdle ==
    /\ results = <<>>
    /\ report = NoReport
    /\ rpc = "idle"

GenerateTestReport ==
    /\ rpc = "report"
    /\ report' = generate_test_report(results)
    /\ rpc' = "done"
    /\ UNCHANGED <<results, svars, ivars, xvars>>

----------------------------------------------------------------------------
(* test_deployment_simple.py : test_deployment_simple *)

HTTP == "http://"
QUOTE == "\""
SP == " "
TXT == "cdn.example.com/lib.js"

required_elements ==
    << "<title>WebRTC PeerJS Chat</title>",
       "<h1>WebRTC PeerJS Chat</h1>",
       "id=\"my-id\"",
       "id=\"peer-id-input\"",
       "id=\"connect-btn\"",
       "id=\"chat-log\"",
       "id=\"message-input\"",
       "id=\"send-btn\"",
       "id=\"test-output\"" >>

PeerJSMarker == "peerjs@1.5.0"
BrowserDetectionMarker == "detectAndBlockLegacyBrowsers"
DescribeMarker == "describe("
TestMarker == "test("

webrtc_features ==
    << "RTCPeerConnection",
       "RTCDataChannel",
       "stun:stun.l.google.com:19302",
       "new Peer(" >>

Range(s) == {s[i] : i \in DOMAIN s}

\* every literal the checker tests for, in the order it tests them
CheckedMarkers ==
    required_elements \o <<PeerJSMarker, BrowserDetectionMarker,
                           DescribeMarker, TestMarker>> \o webrtc_features

\* tokens that contain a double quote or whitespace: they end a match of
\* [^"\s]+
BreaksRun(tok) ==
    tok \in {QUOTE, SP, "<title>WebRTC PeerJS Chat</title>",
             "<h1>WebRTC PeerJS Chat</h1>", "new Peer("}
           \cup {required_elements[i] : i \in 3..9}

\* the first character of the token is neither a double quote nor whitespace
StartsRun(tok) == tok \notin {QUOTE, SP}

\* element in content
Contains(c, m) == \E i \in DOMAIN c : c[i] = m

\* len(re.findall(r'http://[^"\s]+', content)) : non-overlapping matches,
\* scanned left to right; a match needs one character after the literal and
\* runs up to the next double quote or whitespace
RECURSIVE FindAllFrom(_, _, _)
FindAllFrom(c, i, inMatch) ==
    IF i > Len(c) THEN 0
    ELSE IF inMatch
         THEN FindAllFrom(c, i + 1, ~BreaksRun(c[i]))
         ELSE IF c[i] = HTTP /\ i < Len(c) /\ StartsRun(c[i + 1])
              THEN 1 + FindAllFrom(c, i + 1, TRUE)
              ELSE FindAllFrom(c, i + 1, FALSE)

FindAll(c) == FindAllFrom(c, 1, FALSE)

\* fixture pages: the page with every checked literal, some literals removed,
\* one fragment with the http:// literal inserted
Fixture == CheckedMarkers

Remove(c, S) == SelectSeq(c, LAMBDA t : t \notin S)

InsertAt(c, pos, frag) ==
    SubSeq(c, 1, pos) \o frag \o SubSeq(c, pos + 1, Len(c))

Fragments ==
    { <<HTTP>>, <<HTTP, TXT>>, <<HTTP, QUOTE>>, <<HTTP, SP>>,
      <<HTTP, TXT, QUOTE, SP, QUOTE, HTTP, TXT, QUOTE>> }

RemovedSets == {S \in SUBSET Range(Fixture) : Cardinality(S) <= MaxMissing}

SInit ==
    /\ spc = "fetch"
    /\ status = 0
    /\ content = <<>>
    /\ idx = 0
    /\ found = <<>>
    /\ missing = <<>>
    /\ evaluated = {}
    /\ http_resources = -1
    /\ sresult = "running"
    /\ loaded = FALSE
    /\ base = <<>>
    /\ inserted = <<>>

SIdle ==
    /\ spc = "idle"
    /\ status = 0
    /\ content = <<>>
    /\ idx = 0
    /\ found = <<>>
    /\ missing = <<>>
    /\ evaluated = {}
    /\ http_resources = -1
    /\ sresult = "running"
    /\ loaded = FALSE
    /\ base = <<>>
    /\ inserted = <<>>

ReturnFalse ==
    /\ sresult' = "False"
    /\ spc' = "done"

\* urlopen raises (URLError, HTTPError, timeout): both except clauses
\* return False
FetchRaises ==
    /\ spc = "fetch"
    /\ status' = -1
    /\ ReturnFalse
    /\ UNCHANGED <<content, idx, found, missing, evaluated, http_resources,
                   loaded, base, inserted, rvars, ivars, xvars>>

\* response.status != 200
FetchUnexpectedStatusContinues ==
    /\ spc = "fetch"
    /\ \E s \in {204, 206} : status' = s
    /\ base' = Fixture
    /\ inserted' = <<>>
    /\ content' = Fixture
    /\ loaded' = TRUE
    /\ spc' = "required"
    /\ idx' = 1
    /\ UNCHANGED <<found, missing, evaluated, http_resources, sresult, rvars,
                   ivars, xvars>>

FetchUnexpectedStatus ==
    /\ spc = "fetch"
    /\ \E s \in {204, 206} : status' = s
    /\ ReturnFalse
    /\ UNCHANGED <<content, idx, found, missing, evaluated, http_resources,
                   loaded, base, inserted, rvars, ivars, xvars>>

\* response.status == 200 and read().decode('utf-8') raises
FetchDecodeRaises ==
    /\ spc = "fetch"
    /\ status' = 200
    /\ ReturnFalse
    /\ UNCHANGED <<content, idx, found, missing, evaluated, http_resources,
                   loaded, base, inserted, rvars, ivars, xvars>>

\* response.status == 200, content = response.read().decode('utf-8')
FetchOk ==
    /\ spc = "fetch"
    /\ status' = 200
    /\ \E S \in RemovedSets :
         LET b == Remove(Fixture, S) IN
         /\ base' = b
         /\ \/ /\ inserted' = <<>>
               /\ content' = b
            \/ \E frag \in Fragments, d \in 0..MaxInsertDist :
                 /\ d <= Len(b)
                 /\ inserted' = frag
                 /\ content' = InsertAt(b, Len(b) - d, frag)
    /\ loaded' = TRUE
    /\ spc' = "required"
    /\ idx' = 1
    /\ UNCHANGED <<found, missing, evaluated, http_resources, sresult, rvars, ivars, xvars>>

\* for element in required_elements: one iteration
CheckRequiredElement ==
    /\ spc = "required"
    /\ LET element == required_elements[idx] IN
       /\ evaluated' = evaluated \cup {element}
       /\ IF Contains(content, element)
          THEN /\ found' = Append(found, element)
               /\ missing' = missing
               /\ sresult' = sresult
               /\ IF idx = Len(required_elements)
                  THEN spc' = "peerjs" /\ idx' = 0
                  ELSE spc' = "required" /\ idx' = idx + 1
          ELSE /\ missing' = Append(missing, element)
               /\ found' = found
               /\ idx' = idx
               /\ ReturnFalse
    /\ UNCHANGED <<status, content, http_resources, loaded, base, inserted, rvars, ivars, xvars>>

\* if 'peerjs@1.5.0' in content
CheckPeerJSNoReturn ==
    /\ spc = "peerjs"
    /\ evaluated' = evaluated \cup {PeerJSMarker}
    /\ IF Contains(content, PeerJSMarker)
       THEN found' = Append(found, PeerJSMarker) /\ missing' = missing
       ELSE missing' = Append(missing, PeerJSMarker) /\ found' = found
    /\ spc' = "http"
    /\ UNCHANGED <<status, content, idx, http_resources, sresult, loaded,
                   base, inserted, rvars, ivars, xvars>>

CheckPeerJS ==
    /\ spc = "peerjs"
    /\ evaluated' = evaluated \cup {PeerJSMarker}
    /\ IF Contains(content, PeerJSMarker)
       THEN /\ found' = Append(found, PeerJSMarker)
            /\ missing' = missing
            /\ sresult' = sresult
            /\ spc' = "http"
       ELSE /\ missing' = Append(missing, PeerJSMarker)
            /\ found' = found
            /\ ReturnFalse
    /\ UNCHANGED <<status, content, idx, http_resources, loaded, base, inserted, rvars, ivars, xvars>>

\* http_resources = re.findall(...): reported as warnings, no return
ScanHttpResources ==
    /\ spc = "http"
    /\ http_resources' = FindAll(content)
    /\ spc' = "browser_detection"
    /\ UNCHANGED <<status, content, idx, found, missing, evaluated, sresult,
                   loaded, base, inserted, rvars, ivars, xvars>>

\* if 'detectAndBlockLegacyBrowsers' in content
CheckBrowserDetectionInverted ==
    /\ spc = "browser_detection"
    /\ evaluated' = evaluated \cup {BrowserDetectionMarker}
    /\ IF ~Contains(content, BrowserDetectionMarker)
       THEN /\ found' = Append(found, BrowserDetectionMarker)
            /\ missing' = missing
            /\ sresult' = sresult
            /\ spc' = "test_framework"
       ELSE /\ missing' = Append(missing, BrowserDetectionMarker)
            /\ found' = found
            /\ ReturnFalse
    /\ UNCHANGED <<status, content, idx, http_resources, loaded, base, inserted, rvars, ivars, xvars>>

CheckBrowserDetection ==
    /\ spc = "browser_detection"
    /\ evaluated' = evaluated \cup {BrowserDetectionMarker}
    /\ IF Contains(content, BrowserDetectionMarker)
       THEN /\ found' = Append(found, BrowserDetectionMarker)
            /\ missing' = missing
            /\ sresult' = sresult
            /\ spc' = "test_framework"
       ELSE /\ missing' = Append(missing, BrowserDetectionMarker)
            /\ found' = found
            /\ ReturnFalse
    /\ UNCHANGED <<status, content, idx, http_resources, loaded, base, inserted, rvars, ivars, xvars>>

\* if 'describe(' in content and 'test(' in content  (and short-circuits)
TestFrameworkCheck == "describe( and test("

TestFrameworkEither(c) == Contains(c, DescribeMarker) \/ Contains(c, TestMarker)
TestFrameworkFound(c) == Contains(c, DescribeMarker) /\ Contains(c, TestMarker)

CheckTestFramework ==
    /\ spc = "test_framework"
    /\ evaluated' = evaluated \cup {DescribeMarker} \cup
                    (IF Contains(content, DescribeMarker) THEN {TestMarker} ELSE {})
    /\ IF TestFrameworkFound(content)
       THEN /\ found' = Append(found, TestFrameworkCheck)
            /\ missing' = missing
            /\ sresult' = sresult
            /\ spc' = "webrtc"
            /\ idx' = 1
       ELSE /\ missing' = Append(missing, TestFrameworkCheck)
            /\ found' = found
            /\ idx' = idx
            /\ ReturnFalse
    /\ UNCHANGED <<status, content, http_resources, loaded, base, inserted, rvars, ivars, xvars>>

\* for feature in webrtc_features: one iteration
CheckWebRTCFeature ==
    /\ spc = "webrtc"
    /\ LET feature == webrtc_features[idx] IN
       /\ evaluated' = evaluated \cup {feature}
       /\ IF Contains(content, feature)
          THEN /\ found' = Append(found, feature)
               /\ missing' = missing
               /\ sresult' = sresult
               /\ IF idx = Len(webrtc_features)
                  THEN spc' = "passed" /\ idx' = 0
                  ELSE spc' = "webrtc" /\ idx' = idx + 1
          ELSE /\ missing' = Append(missing, feature)
               /\ found' = found
               /\ idx' = idx
               /\ ReturnFalse
    /\ UNCHANGED <<status, content, http_resources, loaded, base, inserted, rvars, ivars, xvars>>

\* print("All simple deployment tests passed!"); return True
ReturnTrue ==
    /\ spc = "passed"
    /\ sresult' = "True"
    /\ spc' = "done"
    /\ UNCHANGED <<status, content, idx, found, missing, evaluated,
                   http_resources, loaded, base, inserted, rvars, ivars, xvars>>

----------------------------------------------------------------------------
(* browser_automation.py : BrowserAutomation, test_deployment              *)
(* test_deployment.py    : test_deployment                                 *)

BA == "browser_automation.py"
TD == "test_deployment.py"

ExpectedTitle == "WebRTC PeerJS Chat"
OtherTitle == "404 Not Found"
NoTitle == "None"

NoError == [step |-> "none", kind |-> "none"]
Error(s, k) == [step |-> s, kind |-> k]

ErrorScreenshot == "screenshot deployment_error.png"
BrowserClose == "browser.close"

IInit ==
    /\ variant \in {BA, TD}
    /\ ipc = "start"
    /\ step = 0
    /\ browser = FALSE
    /\ context = FALSE
    /\ page = FALSE
    /\ title = NoTitle
    /\ close_calls = 0
    /\ events = <<>>
    /\ raised = NoError
    /\ original = NoError
    /\ failed = {}
    /\ reported_success = FALSE
    /\ exit_code = -1

IIdle ==
    /\ variant = "none"
    /\ ipc = "idle"
    /\ step = 0
    /\ browser = FALSE
    /\ context = FALSE
    /\ page = FALSE
    /\ title = NoTitle
    /\ close_calls = 0
    /\ events = <<>>
    /\ raised = NoError
    /\ original = NoError
    /\ failed = {}
    /\ reported_success = FALSE
    /\ exit_code = -1

\* ---- browser_automation.py ----

\* BrowserAutomation.create_session: the stage at which the engine raises
\* decides which handles were stored before the except clause returns False
CreateStages == {"launch", "new_context", "new_page", "ok"}

create_session ==
    /\ variant = BA
    /\ ipc = "start"
    /\ \E stage \in CreateStages :
         /\ browser' = (stage # "launch")
         /\ context' = (stage \in {"new_page", "ok"})
         /\ page' = (stage = "ok")
         /\ failed' = IF stage = "ok" THEN failed ELSE failed \cup {"create_session"}
         /\ events' = Append(events, "chromium.launch")
    /\ ipc' = "navigate_to_url"
    /\ UNCHANGED <<variant, step, title, close_calls, raised, original,
                   reported_success, exit_code, rvars, svars, xvars>>

\* the common shape of navigate_to_url, wait_for_selector, get_text_content,
\* fill_input, take_screenshot, execute_javascript: `if not self.page` returns
\* the failure value, an engine exception is caught and returns the failure
\* value; test_deployment drops the return value and goes on
PageCall(op, nxt) ==
    /\ variant = BA
    /\ ipc = op
    /\ IF ~page
       THEN /\ failed' = failed \cup {op}
            /\ events' = events
       ELSE \E ok \in BOOLEAN :
              /\ events' = Append(events, op)
              /\ failed' = IF ok THEN failed ELSE failed \cup {op}
    /\ ipc' = nxt
    /\ UNCHANGED <<variant, step, browser, context, page, title, close_calls,
                   raised, original, reported_success, exit_code, rvars, svars, xvars>>

navigate_to_url == PageCall("navigate_to_url", "wait_for_selector")
wait_for_selector == PageCall("wait_for_selector", "get_page_title")

\* title = await automation.get_page_title(); assert title == "WebRTC PeerJS Chat"
AssertTitle(t) == t = ExpectedTitle

get_page_title ==
    /\ variant = BA
    /\ ipc = "get_page_title"
    /\ \E t \in {ExpectedTitle, OtherTitle, NoTitle} :
         /\ ~page => t = NoTitle
         /\ title' = t
         /\ events' = IF page THEN Append(events, "get_page_title") ELSE events
         /\ failed' = IF t = NoTitle THEN failed \cup {"get_page_title"} ELSE failed
         /\ IF AssertTitle(t)
            THEN /\ ipc' = "get_text_content"
                 /\ UNCHANGED <<raised, original>>
            ELSE /\ ipc' = "except"
                 /\ raised' = Error("assert title", "AssertionError")
                 /\ original' = Error("assert title", "AssertionError")
    /\ UNCHANGED <<variant, step, browser, context, page, close_calls,
                   reported_success, exit_code, rvars, svars, xvars>>

get_text_content == PageCall("get_text_content", "fill_input peer-id-input")
fill_input_peer_id == PageCall("fill_input peer-id-input", "fill_input message-input")
fill_input_message == PageCall("fill_input message-input", "take_screenshot")
take_screenshot == PageCall("take_screenshot", "execute_javascript")
execute_javascript == PageCall("execute_javascript", "completed")

\* print("Deployment test completed successfully!")
BACompleted ==
    /\ variant = BA
    /\ ipc = "completed"
    /\ reported_success' = TRUE
    /\ ipc' = "finally"
    /\ UNCHANGED <<variant, step, browser, context, page, title, close_calls,
                   events, raised, original, failed, exit_code, rvars, svars, xvars>>

\* except Exception: take_screenshot('deployment_error.png'); raise
\* take_screenshot catches whatever the engine raises
BAExcept ==
    /\ variant = BA
    /\ ipc = "except"
    /\ IF ~page
       THEN /\ events' = Append(events, ErrorScreenshot)
            /\ failed' = failed \cup {ErrorScreenshot}
       ELSE \E ok \in BOOLEAN :
              /\ events' = events \o <<ErrorScreenshot, "page.screenshot">>
              /\ failed' = IF ok THEN failed ELSE failed \cup {ErrorScreenshot}
    /\ ipc' = "finally"
    /\ UNCHANGED <<variant, step, browser, context, page, title, close_calls,
                   raised, original, reported_success, exit_code,
                   rvars, svars, xvars>>

\* finally: close_session(): browser.close() only if self.browser is set, its
\* exception is caught
BAFinally ==
    /\ variant = BA
    /\ ipc = "finally"
    /\ IF browser
       THEN \E ok \in BOOLEAN :
              /\ close_calls' = close_calls + 1
              /\ events' = Append(events, BrowserClose)
              /\ failed' = IF ok THEN failed ELSE failed \cup {"close_session"}
       ELSE UNCHANGED <<close_calls, events, failed>>
    /\ ipc' = "returned"
    /\ UNCHANGED <<variant, step, browser, context, page, title, raised,
                   original, reported_success, exit_code, rvars, svars, xvars>>

\* ---- test_deployment.py ----

\* browser = launch(); context = browser.new_context(); page =
\* context.new_page(): before the try, so an exception leaves the function
\* through `async with` only
TDAcquire ==
    /\ variant = TD
    /\ ipc = "start"
    /\ \E stage \in CreateStages :
         /\ browser' = (stage # "launch")
         /\ context' = (stage \in {"new_page", "ok"})
         /\ page' = (stage = "ok")
         /\ events' = Append(events, "chromium.launch")
         /\ IF stage = "ok"
            THEN /\ ipc' = "try"
                 /\ step' = 1
                 /\ UNCHANGED <<raised, failed>>
            ELSE /\ ipc' = "returned"
                 /\ step' = step
                 /\ raised' = Error(stage, "Error")
                 /\ failed' = failed \cup {stage}
    /\ UNCHANGED <<variant, title, close_calls, original, reported_success,
                   exit_code, rvars, svars, xvars>>

\* the statements of the try block, in order, with what each can raise
TDSteps ==
    << [name |-> "goto",                  kinds |-> {"Error"}],
       [name |-> "wait_for_load_state",   kinds |-> {"Error"}],
       [name |-> "title",                 kinds |-> {"Error", "AssertionError"}],
       [name |-> "h1 text_content",       kinds |-> {"Error", "AssertionError"}],
       [name |-> "wait_for_function",     kinds |-> {"Error"}],
       [name |-> "my-id text_content",    kinds |-> {"Error", "AssertionError"}],
       [name |-> "send-btn is_disabled",  kinds |-> {"Error", "AssertionError"}],
       [name |-> "peer-id-input fill",    kinds |-> {"Error", "AssertionError"}],
       [name |-> "message-input fill",    kinds |-> {"Error", "AssertionError"}],
       [name |-> "test-output",           kinds |-> {"Error"}],
       [name |-> "screenshot",            kinds |-> {"Error"}],
       [name |-> "reload",                kinds |-> {"Error"}] >>

\* one statement of the try block: it completes, or raises into the except
\* clause
TDStep ==
    /\ variant = TD
    /\ ipc = "try"
    /\ events' = Append(events, TDSteps[step].name)
    /\ \/ /\ IF step = Len(TDSteps)
             THEN ipc' = "completed" /\ step' = step
             ELSE ipc' = "try" /\ step' = step + 1
          /\ UNCHANGED <<raised, original, failed>>
       \/ \E k \in TDSteps[step].kinds :
            /\ raised' = Error(TDSteps[step].name, k)
            /\ original' = Error(TDSteps[step].name, k)
            /\ failed' = failed \cup {TDSteps[step].name}
            /\ ipc' = "except"
            /\ step' = step
    /\ UNCHANGED <<variant, browser, context, page, title, close_calls,
                   reported_success, exit_code, rvars, svars, xvars>>

\* print("All deployment tests passed!")
TDCompleted ==
    /\ variant = TD
    /\ ipc = "completed"
    /\ reported_success' = TRUE
    /\ ipc' = "finally"
    /\ UNCHANGED <<variant, step, browser, context, page, title, close_calls,
                   events, raised, original, failed, exit_code, rvars, svars, xvars>>

\* except Exception: page.screenshot(path='deployment_error.png'); raise
\* an exception of page.screenshot is the one that propagates
TDExcept ==
    /\ variant = TD
    /\ ipc = "except"
    /\ events' = events \o <<ErrorScreenshot, "page.screenshot">>
    /\ \E ok \in BOOLEAN :
         /\ raised' = IF ok THEN raised ELSE Error("page.screenshot", "Error")
         /\ failed' = IF ok THEN failed ELSE failed \cup {ErrorScreenshot}
    /\ ipc' = "finally"
    /\ UNCHANGED <<variant, step, browser, context, page, title, close_calls,
                   original, reported_success, exit_code, rvars, svars, xvars>>

\* finally: await browser.close()
TDFinally ==
    /\ variant = TD
    /\ ipc = "finally"
    /\ close_calls' = close_calls + 1
    /\ events' = Append(events, BrowserClose)
    /\ \E raises \in BOOLEAN :
         /\ raised' = IF raises THEN Error(BrowserClose, "Error") ELSE raised
         /\ failed' = IF raises THEN failed \cup {BrowserClose} ELSE failed
    /\ ipc' = "returned"
    /\ UNCHANGED <<variant, step, browser, context, page, title, original,
                   reported_success, exit_code, rvars, svars, xvars>>

\* ---- both: asyncio.run(test_deployment()) at the top level ----

\* an exception that leaves test_deployment is not caught: traceback, exit
\* status 1; otherwise the script ends with status 0
TopLevelExit ==
    /\ ipc = "returned"
    /\ exit_code' = IF raised = NoError THEN 0 ELSE 1
    /\ ipc' = "exited"
    /\ UNCHANGED <<variant, step, browser, context, page, title, close_calls,
                   events, raised, original, failed, reported_success,
                   rvars, svars, xvars>>


----------------------------------------------------------------------------
(* deploy_and_test.py : main, wait_for_deployment, test_deployment,        *)
(* run_command                                                             *)

MaxSeconds == 12
DefaultSeconds == 30

tests ==
    << [command     |-> "python3 test_deployment_simple.py",
        description |-> "Simple HTTP validation test",
        critical    |-> TRUE],
       [command     |-> "python3 test_deployment_uvx.py",
        description |-> "Comprehensive uvx/playwright test",
        critical    |-> TRUE],
       [command     |-> "uvx --from playwright playwright screenshot https://mehrmorgen.github.io/CanChat/chat.html post_deploy_test.png",
        description |-> "Post-deployment screenshot",
        critical    |-> FALSE] >>

\* what subprocess.run does inside run_command
CommandOutcomes ==
    {"returncode 0", "returncode 1", "TimeoutExpired", "Exception"}

\* run_command: True only for returncode == 0; a non-zero return code, a
\* timeout and any other Exception are turned into False
run_command(outcome) == outcome = "returncode 0"

\* if i % 10 == 0 or i <= 5
ProgressDueBoth(i) == i % 10 = 0 /\ i <= 5
ProgressDue(i) == i % 10 = 0 \/ i <= 5

\* sys.exit(0) if success else sys.exit(1)
ExitCodeAlwaysZero(success) == 0
ExitCodeFor(success) == IF success THEN 0 ELSE 1

WInit ==
    /\ wpc = "start"
    /\ seconds \in (0..MaxSeconds) \cup {DefaultSeconds}
    /\ remaining = 0
    /\ notifications = <<>>
    /\ sleeps = 0
    /\ completed_at = -1
    /\ tindex = 0
    /\ executed = <<>>
    /\ outcomes = <<>>
    /\ aborted = "none"
    /\ wexit = -1

WIdle ==
    /\ wpc = "idle"
    /\ seconds = 0
    /\ remaining = 0
    /\ notifications = <<>>
    /\ sleeps = 0
    /\ completed_at = -1
    /\ tindex = 0
    /\ executed = <<>>
    /\ outcomes = <<>>
    /\ aborted = "none"
    /\ wexit = -1

\* main: wait_for_deployment(seconds) is entered, range(seconds, 0, -1)
\* starts at seconds
MainStart ==
    /\ wpc = "start"
    /\ wpc' = "wait"
    /\ remaining' = seconds
    /\ UNCHANGED <<seconds, notifications, sleeps, completed_at, tindex,
                   executed, outcomes, aborted, wexit, rvars, svars, ivars,
                   cvars, uvars, avars>>

\* one iteration of the loop of wait_for_deployment: the progress message
\* when due, then time.sleep(1)
WaitIteration ==
    /\ wpc = "wait"
    /\ remaining >= 1
    /\ notifications' = IF ProgressDue(remaining)
                        THEN Append(notifications, remaining)
                        ELSE notifications
    /\ sleeps' = sleeps + 1
    /\ remaining' = remaining - 1
    /\ UNCHANGED <<wpc, seconds, completed_at, tindex, executed, outcomes,
                   aborted, wexit, rvars, svars, ivars, cvars, uvars, avars>>

\* the loop is over: "Wait complete", wait_for_deployment returns and
\* test_deployment starts
WaitComplete ==
    /\ wpc = "wait"
    /\ remaining < 1
    /\ completed_at' = sleeps
    /\ wpc' = "tests"
    /\ tindex' = 1
    /\ UNCHANGED <<seconds, remaining, notifications, sleeps, executed,
                   outcomes, aborted, wexit, rvars, svars, ivars, cvars,
                   uvars, avars>>

\* one iteration of the loop of test_deployment: run_command, results.append,
\* the log line for a failed critical test, time.sleep(2); after the last
\* test the results are returned to main, which calls generate_test_report
RunTestAbortOnCritical ==
    /\ wpc = "tests"
    /\ \E outcome \in CommandOutcomes :
         LET test == tests[tindex]
             success == run_command(outcome) IN
         /\ executed' = Append(executed, test.description)
         /\ outcomes' = Append(outcomes, outcome)
         /\ results' = Append(results, [test     |-> test.description,
                                        success  |-> success,
                                        critical |-> test.critical])
         /\ IF tindex = Len(tests) \/ (~success /\ test.critical)
            THEN wpc' = "report" /\ rpc' = "report" /\ tindex' = tindex
            ELSE wpc' = "tests" /\ rpc' = rpc /\ tindex' = tindex + 1
    /\ UNCHANGED <<report, seconds, remaining, notifications, sleeps,
                   completed_at, aborted, wexit, svars, ivars, cvars, uvars,
                   avars>>

RunTest ==
    /\ wpc = "tests"
    /\ \E outcome \in CommandOutcomes :
         LET test == tests[tindex]
             success == run_command(outcome) IN
         /\ executed' = Append(executed, test.description)
         /\ outcomes' = Append(outcomes, outcome)
         /\ results' = Append(results, [test     |-> test.description,
                                        success  |-> success,
                                        critical |-> test.critical])
         /\ IF tindex = Len(tests)
            THEN wpc' = "report" /\ rpc' = "report" /\ tindex' = tindex
            ELSE wpc' = "tests" /\ rpc' = rpc /\ tindex' = tindex + 1
    /\ UNCHANGED <<report, seconds, remaining, notifications, sleeps,
                   completed_at, aborted, wexit, svars, ivars, cvars, uvars,
                   avars>>

\* main: if success: sys.exit(0) else: sys.exit(1)
MainExit ==
    /\ wpc = "report"
    /\ rpc = "done"
    /\ wexit' = ExitCodeFor(report.verdict)
    /\ wpc' = "exited"
    /\ UNCHANGED <<seconds, remaining, notifications, sleeps, completed_at,
                   tindex, executed, outcomes, aborted, rvars, svars, ivars,
                   cvars, uvars, avars>>

\* __main__: a KeyboardInterrupt, or an Exception raised outside the try of
\* run_command, leaves main at whatever statement it is; both handlers call
\* sys.exit(1)
MainAborted ==
    /\ wpc \in {"start", "wait", "tests", "report"}
    /\ \E e \in {"KeyboardInterrupt", "Exception"} : aborted' = e
    /\ wexit' = 1
    /\ wpc' = "exited"
    /\ rpc' = IF rpc = "report" THEN "aborted" ELSE rpc
    /\ UNCHANGED <<results, report, seconds, remaining, notifications, sleeps,
                   completed_at, tindex, executed, outcomes, svars, ivars,
                   cvars, uvars, avars>>


----------------------------------------------------------------------------
(* __main__ of browser_automation.py, test_https_server.py and             *)
(* deploy_and_test.py : what each does with sys.argv[1:]                   *)

MaxArgs == 2
DefaultPort == 8443

HTTPS == "test_https_server.py"
DEPLOY == "deploy_and_test.py"

ArgValues == {"test", "8443", "9000", "bogus", "--help"}

\* int(sys.argv[1]): the value, or ValueError
IsInt(s) == s \in {"8443", "9000"}
IntOf(s) == IF s = "8443" THEN 8443 ELSE 9000

\* len(sys.argv) > 1 and sys.argv[1] == "test"
IsTestModeAnyArg(a) == Len(a) > 0
IsTestMode(a) == Len(a) > 0 /\ a[1] = "test"

CInit ==
    /\ script \in {BA, HTTPS, DEPLOY}
    /\ argv \in SeqsUpTo(ArgValues, MaxArgs)
    /\ action = "none"
    /\ port = 0

CIdle ==
    /\ script = "none"
    /\ argv = <<>>
    /\ action = "none"
    /\ port = 0

\* browser_automation.py: asyncio.run(test_deployment()) for `test`, the
\* usage text otherwise
BrowserAutomationMain ==
    /\ script = BA
    /\ action = "none"
    /\ action' = IF IsTestMode(argv) THEN "test_deployment" ELSE "help"
    /\ UNCHANGED <<script, argv, port, rvars, svars, ivars, wvars, uvars,
                   avars>>

\* test_https_server.py: the port is int(sys.argv[1]), or 8443 when there is
\* no argument or int() raises ValueError; start_https_server(port) is called
\* in every case
HttpsServerMain ==
    /\ script = HTTPS
    /\ action = "none"
    /\ port' = IF Len(argv) > 0 /\ IsInt(argv[1]) THEN IntOf(argv[1])
               ELSE DefaultPort
    /\ action' = "start_https_server"
    /\ UNCHANGED <<script, argv, rvars, svars, ivars, wvars, uvars, avars>>

\* deploy_and_test.py: main() is called, sys.argv is not read
DeployMain ==
    /\ script = DEPLOY
    /\ action = "none"
    /\ action' = "main"
    /\ UNCHANGED <<script, argv, port, rvars, svars, ivars, wvars, uvars,
                   avars>>

----------------------------------------------------------------------------
(* test_deployment_uvx.py : run_uvx_command, test_deployment_with_uvx,     *)
(* validate_deployment_files, __main__                                     *)

\* run_uvx_command: returncode == 0; a timeout and any other Exception give
\* False
run_uvx_command(outcome) == outcome = "returncode 0"

Answers == {"y", "yes", "n", "", "KeyboardInterrupt", "EOFError"}

UInit ==
    /\ upc = "screenshot"
    /\ shot = "none"
    /\ pdf = "none"
    /\ interactivity = "none"
    /\ png_exists = FALSE
    /\ pdf_exists = FALSE
    /\ ureturn = "running"
    /\ files_valid = FALSE
    /\ answer = "none"
    /\ quick_test = "none"
    /\ uexit = -1

UIdle ==
    /\ upc = "idle"
    /\ shot = "none"
    /\ pdf = "none"
    /\ interactivity = "none"
    /\ png_exists = FALSE
    /\ pdf_exists = FALSE
    /\ ureturn = "running"
    /\ files_valid = FALSE
    /\ answer = "none"
    /\ quick_test = "none"
    /\ uexit = -1

\* Test 1: screenshot; return False when the command did not succeed
UvxScreenshot ==
    /\ upc = "screenshot"
    /\ quick_test' = quick_test
    /\ \E o \in CommandOutcomes :
         /\ shot' = o
         /\ IF run_uvx_command(o)
            THEN upc' = "pdf" /\ ureturn' = ureturn
            ELSE upc' = "main" /\ ureturn' = "False"
    /\ UNCHANGED <<pdf, interactivity, png_exists, pdf_exists, files_valid,
                   answer, uexit, rvars, svars, ivars, wvars, cvars, avars>>

\* Test 2: pdf; a failure is printed and the function goes on
UvxPdfStrict ==
    /\ upc = "pdf"
    /\ quick_test' = quick_test
    /\ \E o \in CommandOutcomes :
         /\ pdf' = o
         /\ IF run_uvx_command(o)
            THEN upc' = "interactivity" /\ ureturn' = ureturn
            ELSE upc' = "main" /\ ureturn' = "False"
    /\ UNCHANGED <<shot, interactivity, png_exists, pdf_exists, files_valid,
                   answer, uexit, rvars, svars, ivars, wvars, cvars, avars>>

UvxPdf ==
    /\ upc = "pdf"
    /\ quick_test' = quick_test
    /\ \E o \in CommandOutcomes : pdf' = o
    /\ upc' = "interactivity"
    /\ UNCHANGED <<shot, interactivity, png_exists, pdf_exists, ureturn,
                   files_valid, answer, uexit, rvars, svars, ivars, wvars,
                   cvars, avars>>

\* Test 3: Popen(codegen), sleep, terminate; an Exception is printed as
\* "skipped"; then return True
UvxInteractivity ==
    /\ upc = "interactivity"
    /\ quick_test' = quick_test
    /\ \E o \in {"completed", "Exception"} : interactivity' = o
    /\ ureturn' = "True"
    /\ upc' = "main"
    /\ UNCHANGED <<shot, pdf, png_exists, pdf_exists, files_valid, answer,
                   uexit, rvars, svars, ivars, wvars, cvars, avars>>

\* __main__ after test_deployment_with_uvx returned: sys.exit(1) for False;
\* for True validate_deployment_files, whose False result only prints a
\* warning, after which the script ends (exit status 0)
UvxMain ==
    /\ upc = "main"
    /\ quick_test' = quick_test
    /\ IF ureturn = "False"
       THEN /\ uexit' = 1
            /\ upc' = "exited"
            /\ UNCHANGED <<png_exists, pdf_exists, files_valid>>
       ELSE \E png \in BOOLEAN, pdfe \in BOOLEAN :
              /\ png_exists' = png
              /\ pdf_exists' = pdfe
              /\ files_valid' = (png /\ pdfe)
              /\ IF png /\ pdfe
                 THEN upc' = "prompt" /\ uexit' = uexit
                 ELSE upc' = "exited" /\ uexit' = 0
    /\ UNCHANGED <<shot, pdf, interactivity, ureturn, answer, rvars, svars,
                   ivars, wvars, cvars, avars>>

\* input(...): y/yes runs quick_browser_test, whose result is dropped; a
\* KeyboardInterrupt is caught, an EOFError is not
UvxPrompt ==
    /\ upc = "prompt"
    /\ \E a \in Answers, q \in {"True", "False"} :
         /\ answer' = a
         /\ quick_test' = IF a \in {"y", "yes"} THEN q ELSE "none"
         /\ uexit' = IF a = "EOFError" THEN 1 ELSE 0
    /\ upc' = "exited"
    /\ UNCHANGED <<shot, pdf, interactivity, png_exists, pdf_exists, ureturn,
                   files_valid, rvars, svars, ivars, wvars, cvars, avars>>

\* the return code run_command sees for the script
ReturnCodeOutcome(code) ==
    IF code = 0 THEN "returncode 0" ELSE "returncode 1"

----------------------------------------------------------------------------
(* browser_automation.py : the methods of BrowserAutomation, called in any *)
(* order                                                                   *)

MaxCalls == 4

PageOps ==
    {"navigate_to_url", "take_screenshot", "get_page_title", "get_page_url",
     "click_element", "fill_input", "get_text_content", "wait_for_selector",
     "execute_javascript"}

\* what each method returns from `if not self.page` and from its except
\* clause
FailureValue(op) ==
    IF op \in {"get_page_title", "get_page_url", "get_text_content",
               "execute_javascript"}
    THEN "None" ELSE "False"

\* what each method returns when the engine call succeeded
SuccessValue(op) ==
    IF op \in {"navigate_to_url", "click_element", "fill_input",
               "wait_for_selector"}
    THEN "True" ELSE "value"

\* if not self.page: return <failure>; try: <engine call>; return <value>
\* except Exception: return <failure>
PageOpResultUnguarded(op, hasPage, ok) ==
    IF ok THEN SuccessValue(op) ELSE FailureValue(op)
PageOpResult(op, hasPage, ok) ==
    IF ~hasPage THEN FailureValue(op)
    ELSE IF ok THEN SuccessValue(op) ELSE FailureValue(op)

\* the engine is reached only past the `if not self.page` test
PageOpTouches(hasPage) == hasPage

\* every engine call is inside try / except Exception: what the engine
\* raises does not reach the caller
Escapes(engineRaised) == FALSE

AInit ==
    /\ ncalls = 0
    /\ launches = 0
    /\ browser_id = 0
    /\ closed = <<>>
    /\ last_op = "none"
    /\ last_result = "none"
    /\ last_had_page = FALSE
    /\ last_touched = FALSE
    /\ escaped = FALSE

AIdle ==
    /\ ncalls = -1
    /\ launches = 0
    /\ browser_id = 0
    /\ closed = <<>>
    /\ last_op = "none"
    /\ last_result = "none"
    /\ last_had_page = FALSE
    /\ last_touched = FALSE
    /\ escaped = FALSE

AOther == <<variant, ipc, step, title, close_calls, events, raised, original,
            failed, reported_success, exit_code>>

\* create_session: each handle is stored as soon as its call returned; the
\* handles of an earlier session stay where the new call did not get to
CallCreateSession ==
    /\ ncalls \in 0..(MaxCalls - 1)
    /\ \E stage \in CreateStages :
         /\ launches' = launches + 1
         /\ browser' = IF stage # "launch" THEN TRUE ELSE browser
         /\ browser_id' = IF stage # "launch" THEN launches + 1 ELSE browser_id
         /\ context' = IF stage \in {"new_page", "ok"} THEN TRUE ELSE context
         /\ page' = IF stage = "ok" THEN TRUE ELSE page
         /\ last_result' = IF stage = "ok" THEN "True" ELSE "False"
         /\ escaped' = (escaped \/ Escapes(stage # "ok"))
    /\ last_op' = "create_session"
    /\ last_had_page' = page
    /\ last_touched' = TRUE
    /\ ncalls' = ncalls + 1
    /\ UNCHANGED <<closed, AOther, rvars, svars, wvars, cvars, uvars>>

\* navigate_to_url .. execute_javascript
CallPageOp ==
    /\ ncalls \in 0..(MaxCalls - 1)
    /\ \E op \in PageOps, ok \in BOOLEAN :
         /\ last_op' = op
         /\ last_result' = PageOpResult(op, page, ok)
         /\ escaped' = (escaped \/ (PageOpTouches(page) /\ Escapes(~ok)))
    /\ last_had_page' = page
    /\ last_touched' = PageOpTouches(page)
    /\ ncalls' = ncalls + 1
    /\ UNCHANGED <<browser, context, page, launches, browser_id, closed,
                   AOther, rvars, svars, wvars, cvars, uvars>>

\* close_session: browser.close() when self.browser is set, True unless it
\* raised; self.browser is left as it is
CallCloseSession ==
    /\ ncalls \in 0..(MaxCalls - 1)
    /\ IF browser
       THEN \E ok \in BOOLEAN :
              /\ closed' = Append(closed, browser_id)
              /\ last_result' = IF ok THEN "True" ELSE "False"
              /\ last_touched' = TRUE
              /\ escaped' = (escaped \/ Escapes(~ok))
       ELSE /\ closed' = closed
            /\ last_result' = "True"
            /\ last_touched' = FALSE
            /\ escaped' = escaped
    /\ last_op' = "close_session"
    /\ last_had_page' = page
    /\ ncalls' = ncalls + 1
    /\ UNCHANGED <<browser, context, page, launches, browser_id, AOther,
                   rvars, svars, wvars, cvars, uvars>>

----------------------------------------------------------------------------
(* Specifications *)

XIdle == WIdle /\ CIdle /\ UIdle /\ AIdle

InitReport == RInit /\ SIdle /\ IIdle /\ XIdle
NextReport == GenerateTestReport
SpecReport == InitReport /\ [][NextReport]_vars

InitStatic == RIdle /\ SInit /\ IIdle /\ XIdle
NextStatic ==
    \/ FetchRaises
    \/ FetchUnexpectedStatus
    \/ FetchDecodeRaises
    \/ FetchOk
    \/ CheckRequiredElement
    \/ CheckPeerJS
    \/ ScanHttpResources
    \/ CheckBrowserDetection
    \/ CheckTestFramework
    \/ CheckWebRTCFeature
    \/ ReturnTrue
SpecStatic == InitStatic /\ [][NextStatic]_vars

InitInteractive == RIdle /\ SIdle /\ IInit /\ XIdle
NextInteractive ==
    \/ create_session
    \/ navigate_to_url
    \/ wait_for_selector
    \/ get_page_title
    \/ get_text_content
    \/ fill_input_peer_id
    \/ fill_input_message
    \/ take_screenshot
    \/ execute_javascript
    \/ BACompleted
    \/ BAExcept
    \/ BAFinally
    \/ TDAcquire
    \/ TDStep
    \/ TDCompleted
    \/ TDExcept
    \/ TDFinally
    \/ TopLevelExit
SpecInteractive == InitInteractive /\ [][NextInteractive]_vars

InitWorkflow == RIdle /\ SIdle /\ IIdle /\ WInit /\ CIdle /\ UIdle /\ AIdle
NextWorkflow ==
    \/ MainStart
    \/ WaitIteration
    \/ WaitComplete
    \/ RunTest
    \/ GenerateTestReport
    \/ MainExit
    \/ MainAborted
SpecWorkflow == InitWorkflow /\ [][NextWorkflow]_vars

InitCli == RIdle /\ SIdle /\ IIdle /\ WIdle /\ CInit /\ UIdle /\ AIdle
NextCli ==
    \/ BrowserAutomationMain
    \/ HttpsServerMain
    \/ DeployMain
SpecCli == InitCli /\ [][NextCli]_vars

InitUvx == RIdle /\ SIdle /\ IIdle /\ WIdle /\ CIdle /\ UInit /\ AIdle
NextUvx ==
    \/ UvxScreenshot
    \/ UvxPdf
    \/ UvxInteractivity
    \/ UvxMain
    \/ UvxPrompt
SpecUvx == InitUvx /\ [][NextUvx]_vars

InitAutomation == RIdle /\ SIdle /\ IIdle /\ WIdle /\ CIdle /\ UIdle /\ AInit
NextAutomation ==
    \/ CallCreateSession
    \/ CallPageOp
    \/ CallCloseSession
SpecAutomation == InitAutomation /\ [][NextAutomation]_vars

----------------------------------------------------------------------------
(* Properties *)

IsFailedNonCritical(r) == ~r.success /\ ~r.critical
KeepsVerdictRelevant(r) == ~IsFailedNonCritical(r)

\* C1: generate_test_report returns true exactly when no result is both
\* failed and critical, and dropping the failed non-critical results from
\* the sequence leaves the verdict as it is.
C1_VerdictIffNoCriticalFailure ==
    rpc = "done" =>
        /\ report.verdict <=>
             ~ \E i \in DOMAIN results :
                   ~results[i].success /\ results[i].critical
        /\ report.verdict =
             generate_test_report(SelectSeq(results, KeepsVerdictRelevant)).verdict

\* (pass, fail/non-critical, pass) reported as overall success
C1_Witness ==
    /\ rpc = "done"
    /\ Len(results) = 3
    /\ results[1].success /\ results[3].success
    /\ IsFailedNonCritical(results[2])
    /\ report.verdict

StaticDone == spc = "done" /\ loaded

AllPresent(c, ms) == \A m \in Range(ms) : Contains(c, m)

\* C3: on every successful fetch every marker of the list is evaluated
\* before the verdict is returned, and every marker absent from the body is
\* reported as missing.
C3_AllMarkersEvaluated ==
    StaticDone =>
        /\ evaluated = Range(CheckedMarkers)
        /\ \A m \in Range(required_elements) \cup Range(webrtc_features)
                    \cup {PeerJSMarker, BrowserDetectionMarker} :
             ~Contains(content, m) => m \in Range(missing)

\* C4: after a fetch with status 200 the result is True exactly when every
\* literal the checker tests for occurs in the body.
C4_ResultIsConjunction ==
    StaticDone =>
        (sresult = "True" <=> AllPresent(content, CheckedMarkers))

C4_Witness ==
    /\ StaticDone
    /\ sresult = "True"
    /\ inserted # <<>>

\* the verdict of the checker on a body, as the chain of early returns
\* computes it
PassesAllChecks(c) ==
    /\ AllPresent(c, required_elements)
    /\ Contains(c, PeerJSMarker)
    /\ Contains(c, BrowserDetectionMarker)
    /\ TestFrameworkFound(c)
    /\ AllPresent(c, webrtc_features)

\* C5: a body into which an http:// literal was inserted produces a warning,
\* and its verdict equals the verdict of the body without the literal.
C5_HttpLiteralWarnsOnly ==
    (StaticDone /\ inserted # <<>>) =>
        /\ http_resources > 0
        /\ (sresult = "True") = PassesAllChecks(base)

\* C6 as claimed: a body with the nine required elements and no http://
\* literal passes with zero warnings.
C6_NineMarkersPass ==
    (StaticDone /\ AllPresent(content, required_elements)
                /\ ~Contains(content, HTTP)) =>
        (sresult = "True" /\ http_resources = 0)

\* C6 amended: a body with every literal the checker tests for (the nine
\* required elements, peerjs@1.5.0, detectAndBlockLegacyBrowsers, describe(,
\* test( and the four WebRTC features) and no http:// literal passes with
\* zero warnings.
C6_AllMarkersPass ==
    (StaticDone /\ AllPresent(content, CheckedMarkers)
                /\ ~Contains(content, HTTP)) =>
        (sresult = "True" /\ http_resources = 0)

C6_Witness ==
    /\ StaticDone
    /\ content = Fixture
    /\ sresult = "True"

LacksOnlyPeerJS(c) ==
    /\ ~Contains(c, PeerJSMarker)
    /\ \A m \in Range(CheckedMarkers) \ {PeerJSMarker} : Contains(c, m)

\* C7: a body that lacks only peerjs@1.5.0 makes the checker return False
\* and report exactly one missing marker, peerjs@1.5.0.
C7_OnlyPeerJSMissing ==
    (StaticDone /\ LacksOnlyPeerJS(content)) =>
        (sresult = "False" /\ missing = <<PeerJSMarker>>)

C7_Witness ==
    /\ StaticDone
    /\ LacksOnlyPeerJS(content)
    /\ missing = <<PeerJSMarker>>

Returned == ipc \in {"returned", "exited"}

\* C2: when the interactive checker returns, the browser it launched has
\* been closed exactly once, whatever the exit path (normal completion, a
\* failed assertion, a failed step, a failure while acquiring the context or
\* the page).
C2_ClosedExactlyOnce ==
    (Returned /\ browser) => close_calls = 1

NavigationSteps == {"navigate_to_url", "goto", "wait_for_load_state"}

\* the engine's navigation raised (timeout before the ready state)
NavigationTimedOut ==
    \/ variant = BA /\ page /\ "navigate_to_url" \in failed
    \/ variant = TD /\ failed \cap {"goto", "wait_for_load_state"} # {}

\* C8: once navigation has timed out the checker is failing with the
\* navigation error itself, and the browser is closed when it has returned.
C8_NavigationErrorRaised ==
    NavigationTimedOut =>
        /\ raised.step \in NavigationSteps
        /\ Returned => close_calls = 1

Position(e) == CHOOSE i \in DOMAIN events : events[i] = e

\* C9: when an error was raised inside the session, the error screenshot
\* was attempted before the browser was closed, the browser was closed, and
\* the error that reaches the top level is the original one, with a
\* non-zero exit status.
C9_ScreenshotCloseOriginal ==
    (ipc = "exited" /\ original # NoError) =>
        /\ ErrorScreenshot \in Range(events)
        /\ BrowserClose \in Range(events) =>
             Position(ErrorScreenshot) < Position(BrowserClose)
        /\ browser => close_calls = 1
        /\ raised = original
        /\ exit_code = 1

InteractionOps ==
    {"wait_for_selector", "get_text_content", "fill_input peer-id-input",
     "fill_input message-input", "take_screenshot"}

\* C10: a run in which an interaction step failed does not end reporting
\* plain success.
C10_FailuresSurfaced ==
    (ipc = "exited" /\ failed \cap InteractionOps # {}) =>
        ~(reported_success /\ exit_code = 0)

Descriptions == [i \in 1..Len(tests) |-> tests[i].description]

\* C11: the checks run in list order, each once, whatever their outcome;
\* results has one entry per executed check, in the same order, with that
\* check's critical flag; the report is generated, and main ends without an
\* interrupt, only after all checks have run.
C11_AllChecksRun ==
    /\ executed = SubSeq(Descriptions, 1, Len(executed))
    /\ Len(results) = Len(executed)
    /\ \A i \in DOMAIN results :
         /\ results[i].test = tests[i].description
         /\ results[i].critical = tests[i].critical
    /\ rpc \in {"report", "done"} => executed = Descriptions
    /\ (wpc = "exited" /\ aborted = "none") => executed = Descriptions

C11_Witness ==
    /\ rpc = "done"
    /\ outcomes = <<"TimeoutExpired", "returncode 1", "Exception">>
    /\ Len(results) = 3

HasCriticalFailure ==
    \E i \in DOMAIN results : ~results[i].success /\ results[i].critical

\* C12: the exit code is 0 exactly when the report was generated with
\* verdict true and nothing interrupted main; it is 1 with a critical
\* failure and 1 after a KeyboardInterrupt or an unhandled Exception.
C12_ExitCode ==
    wpc = "exited" =>
        /\ wexit \in {0, 1}
        /\ wexit = 0 <=> (aborted = "none" /\ rpc = "done" /\ report.verdict)
        /\ HasCriticalFailure => wexit = 1
        /\ aborted # "none" => wexit = 1

C12_Witness ==
    /\ wpc = "exited"
    /\ wexit = 0
    /\ \E i \in DOMAIN results : ~results[i].success

Unrecognized(s, a) ==
    \/ Len(a) = 0
    \/ s = BA /\ a[1] # "test"
    \/ s = HTTPS /\ ~IsInt(a[1])
    \/ s = DEPLOY

\* C13 as claimed: each script, run without a positional argument or with
\* an unrecognized one, prints the usage help and does nothing else.
C13_HelpWithoutAction ==
    (action # "none" /\ Unrecognized(script, argv)) => action = "help"

\* C13 amended: browser_automation.py prints the usage help and does nothing
\* else unless its first argument is `test`; test_https_server.py starts the
\* server whatever its arguments, on port 8443 when there is no argument or
\* the argument is not an integer; deploy_and_test.py runs the workflow
\* whatever its arguments.
C13_PerScript ==
    action # "none" =>
        /\ script = BA =>
             (action = "help" <=> ~(Len(argv) > 0 /\ argv[1] = "test"))
        /\ script = BA => action \in {"help", "test_deployment"}
        /\ script = HTTPS =>
             /\ action = "start_https_server"
             /\ (Len(argv) = 0 \/ ~IsInt(argv[1])) => port = DefaultPort
        /\ script = DEPLOY => action = "main"

C13_Witness ==
    /\ script = BA
    /\ argv = <<"bogus", "test">>
    /\ action = "help"

ExpectedProgress(n) == {i \in 1..n : i % 10 = 0 \/ i <= 5}

\* C14: wait_for_deployment(n) sleeps n times and then ends; the progress
\* messages are those of the i in n..1 with i divisible by 10 or i <= 5, in
\* strictly decreasing order; the completion message comes after the last
\* sleep and no check runs before it.
C14_DelayStage ==
    /\ sleeps <= seconds
    /\ wpc = "wait" => sleeps + remaining = seconds
    /\ \A j \in DOMAIN notifications, k \in DOMAIN notifications :
         j < k => notifications[j] > notifications[k]
    /\ completed_at # -1 =>
         /\ completed_at = seconds
         /\ sleeps = seconds
         /\ Range(notifications) = ExpectedProgress(seconds)
    /\ (executed # <<>> \/ wpc \in {"tests", "report"}) => completed_at = seconds

C14_Witness ==
    /\ seconds = 12
    /\ completed_at = 12
    /\ notifications = <<10, 5, 4, 3, 2, 1>>
    /\ executed # <<>>

\* C15: a fetch that raises, or answers with a status other than 200, makes
\* the checker return False with no marker evaluated, found or missing.
C15_FetchFailure ==
    (spc = "done" /\ status # 200) =>
        /\ sresult = "False"
        /\ evaluated = {}
        /\ found = <<>>
        /\ missing = <<>>
        /\ http_resources = -1

C15_Witness ==
    /\ spc = "done"
    /\ status = 204
    /\ sresult = "False"

\* C16: test_deployment_with_uvx returns False only when the screenshot
\* command failed, whatever the pdf and interactivity steps did; when it
\* returned True and a generated file is missing the script exits with 0,
\* which run_command records as a passed check.
C16_UvxAlwaysPasses ==
    upc = "exited" =>
        /\ ureturn = "False" <=> ~run_uvx_command(shot)
        /\ (ureturn = "True" /\ ~files_valid) =>
             /\ uexit = 0
             /\ run_command(ReturnCodeOutcome(uexit))

C16_Witness ==
    /\ upc = "exited"
    /\ pdf = "returncode 1"
    /\ interactivity = "Exception"
    /\ ~pdf_exists
    /\ uexit = 0

NoPageFailure(ops) ==
    (last_op \in ops /\ ~last_had_page) =>
        /\ last_result \in {"False", "None"}
        /\ ~last_touched

C17_State ==
    /\ NoPageFailure(PageOps)
    /\ last_op \in PageOps /\ ~last_had_page =>
         last_result = FailureValue(last_op)
    /\ ~escaped
    /\ (last_op = "close_session" /\ last_touched) =>
         /\ browser
         /\ closed[Len(closed)] = browser_id

C17_CloseStep ==
    (last_op' = "close_session" /\ ncalls' = ncalls + 1 /\ browser) =>
        /\ closed' = Append(closed, browser_id)
        /\ browser' /\ browser_id' = browser_id

====
